---- MODULE Spec2Model ----
(***************************************************************************)
(* Scene/trigger orchestration of dmtools-basestar: SceneManager driving   *)
(* AudioEngine (ambient layers, trigger sounds) and LightingController     *)
(* (LED requests, hub commands) on one JavaScript event loop.              *)
(*                                                                         *)
(* One action of the model is one macrotask of the event loop: a click     *)
(* handler, a timer callback, a network response or a playback promise,    *)
(* together with every continuation that runs before the next real         *)
(* suspension.  Logical time advances in ticks of 500 ms.                  *)
(***************************************************************************)
EXTENDS Integers, Sequences, FiniteSets, TLC

VARIABLES
  activeScene,   \* SceneManager.activeScene (None for null)
  triggers,      \* the stored trigger definitions of the configuration
  scenes,        \* the stored scene definitions of the configuration
  ambient,       \* AudioEngine.audioElements.ambient, in push order
  trigger,       \* AudioEngine.audioElements.trigger, in push order
  playing,       \* the audio elements whose paused flag is false
  fades,         \* pending fadeOut groups in creation order
  tasks,         \* the orchestration operations launched so far
  lastWled,      \* the body of the last LED request that was sent
  music,         \* the music channel: audioElements.music (el, empty for null),
                 \* tracks.music (track), playlists (loaded: music is not null)
  volumes,       \* AudioEngine.volumes, in hundredths
  elvol,         \* the volume of every audio element created, in hundredths
  hist,          \* history of the controls: skips in a row, last skip, volume sets
  monitor,       \* the server manager's monitor mode: whether the web server
                 \* answers, FAILURE_COUNT and the record of the health checks
  env            \* the run's frame: how many operations the presentation layer
                 \* launches, with which ids and whether one at a time, how
                 \* many remote calls and playback starts may fail, and
                 \* whether logical time and the sequences in flight at a
                 \* call are recorded in the histories

vars == <<activeScene, triggers, ambient, trigger, playing, fades, tasks, lastWled,
          music, volumes, elvol, hist, monitor, scenes, env>>

None == "none"

\* Bounds of the model.
MaxOps == 2       \* operations the presentation layer launches in one run
MaxLatency == 1   \* ticks a remote call or a playback start may stay pending
MaxTriggerOps == 3 \* operations launched in the runs of the trigger channel alone
MaxFaultOps == 2  \* operations launched in the runs where calls may fail
MaxFaults == 2    \* remote calls and playback starts that fail in one run
MaxTracks == 3    \* tracks of the longest track list handed to playMusic
MaxControls == 4  \* presses of the music transport buttons in one run
MaxVolumeSets == 2 \* setVolume calls in one run

Range(s) == {s[k] : k \in 1..Len(s)}
Has(r, f) == f \in DOMAIN r
Put(r, f, v) == [x \in DOMAIN r \cup {f} |-> IF x = f THEN v ELSE r[x]]
Min(a, b) == IF a < b THEN a ELSE b
Max(a, b) == IF a > b THEN a ELSE b

RECURSIVE Flatten(_)
Flatten(ss) == IF ss = <<>> THEN <<>> ELSE Head(ss) \o Flatten(Tail(ss))

\* setTimeout / setInterval durations in ticks of 500 ms, rounded up.
Ticks(ms) == (ms + 499) \div 500

(***************************************************************************)
(* Configuration (config.json as ConfigManager serves it).                 *)
(***************************************************************************)
\* A homeAssistant value of the configuration is a command text or an array of
\* command texts; isArray is what Array.isArray answers for it.
Text(s) == [isArray |-> FALSE, text |-> s]
List(items) == [isArray |-> TRUE, items |-> items]

Config ==
  [ audio    |-> [fadeDuration |-> 1000, lightingFadeDuration |-> 1000,
                  defaultVolumes |-> [music |-> 60, ambient |-> 40, trigger |-> 80],
                  fileVolumes |-> [f \in {"b.mp3", "zap.mp3", "quiet.mp3"} |->
                                     IF f = "zap.mp3" THEN 150 ELSE 50]],
    lighting |-> [wled |-> [enabled |-> TRUE, overrideDDP |-> TRUE, reenableDDPOnStop |-> FALSE],
                  homeAssistant |-> [enabled |-> TRUE]],
    scenes   |->
      [ tavern |-> [name |-> "Tavern",
                    audio |-> [music |-> "tavern-theme.mp3",
                               ambient |-> <<"a.mp3", "b.mp3">>],
                    lighting |-> [wled |-> [brightness |-> 128, color |-> <<255, 140, 60>>]]],
        storm  |-> [name |-> "Storm",
                    audio |-> [ambient |-> <<"rain.mp3">>],
                    lighting |-> [wled |-> [brightness |-> 40, color |-> <<20, 20, 90>>,
                                            effect |-> "Flicker"]]],
        dark   |-> [name |-> "Darkness",
                    audio |-> [ambient |-> <<"hum.mp3">>],
                    lighting |-> [wled |-> [brightness |-> 0, color |-> <<10, 10, 10>>]]],
        bare   |-> [name |-> "Bare",
                    audio |-> [ambient |-> <<"hum.mp3">>],
                    lighting |-> [wled |-> [effect |-> "Breathe"]]],
        hall   |-> [name |-> "Great Hall",
                    audio |-> [ambient |-> <<"crowd.mp3">>],
                    lighting |-> [wled |-> [brightness |-> 90, color |-> <<255, 200, 150>>],
                                  homeAssistant |-> List(<<Text("lamp on"),
                                                           Text("fan off")>>)]],
        study  |-> [name |-> "Study",
                    audio |-> [ambient |-> <<"clock.mp3">>],
                    lighting |-> [homeAssistant |-> Text("desk lamp on")]] ],
    triggers |->
      [ lightning |-> [name |-> "Lightning Storm",
          sequence |-> <<
            [delay |-> 0,
             lighting |-> [wled |-> [brightness |-> 255, color |-> <<255, 255, 255>>,
                                     duration |-> 100]]],
            [delay |-> 1500, audio |-> [trigger |-> "thunder.mp3"]],
            [delay |-> 1500, lighting |-> [wled |-> [restore |-> TRUE]]] >>],
        flash |-> [name |-> "Magic Flash",
          sequence |-> <<
            [delay |-> 0,
             audio |-> [trigger |-> "zap.mp3"],
             lighting |-> [wled |-> [brightness |-> 200, color |-> <<255, 0, 255>>,
                                     effect |-> "Blink"]]],
            [delay |-> 500,
             audio |-> [trigger |-> "echo.mp3"],
             lighting |-> [wled |-> [brightness |-> 10, color |-> <<0, 0, 0>>,
                                     duration |-> 500]]] >>],
        rumble |-> [name |-> "Rumble",
          sequence |-> <<
            [delay |-> 0, audio |-> [ambient |-> <<"wind.mp3">>]] >>],
        chime |-> [name |-> "Chime",
          sequence |-> <<
            [delay |-> 0,
             lighting |-> [homeAssistant |-> List(<<Text("bell on"), Text("bell off"),
                                                    Text("lamp dim")>>)]],
            [delay |-> 500,
             lighting |-> [homeAssistant |-> Text("lamp on")]] >>],
        probe |-> [name |-> "Probe",
          sequence |-> <<
            [delay |-> 0,
             lighting |-> [wled |-> [brightness |-> 255, speed |-> 128, intensity |-> 128,
                                     duration |-> 200]]] >>] ] ]

SceneIds == DOMAIN Config.scenes
TriggerIds == DOMAIN Config.triggers

getScene(id) == scenes[id]
isWLEDEnabled == Config.lighting.wled.enabled = TRUE
isHomeAssistantEnabled == Config.lighting.homeAssistant.enabled = TRUE
shouldOverrideDDP == Config.lighting.wled.overrideDDP # FALSE
shouldReenableDDPOnStop == Config.lighting.wled.reenableDDPOnStop = TRUE
fadeDuration == IF Config.audio.fadeDuration # 0 THEN Config.audio.fadeDuration ELSE 1000
lightingFadeDuration == Config.audio.lightingFadeDuration

\* getDefaultVolume(type): config.audio.defaultVolumes[type] || 0.5
getDefaultVolume(type) ==
  IF Has(Config.audio, "defaultVolumes") /\ Has(Config.audio.defaultVolumes, type)
     /\ Config.audio.defaultVolumes[type] # 0
  THEN Config.audio.defaultVolumes[type] ELSE 50

\* The per-file multiplier of createAudioElement, in hundredths (100 when none is
\* configured).
FileVolume(source) ==
  IF Has(Config.audio, "fileVolumes") /\ source \in DOMAIN Config.audio.fileVolumes
  THEN Config.audio.fileVolumes[source] ELSE 100

\* createAudioElement variant that starts every element at the configured default.
createAudioElementDefault(vols, type, source) ==
  Min(100, (getDefaultVolume(type) * FileVolume(source)) \div 100)

\* createAudioElement(type, source): the volume the new element gets.
createAudioElement(vols, type, source) ==
  LET fileVolumes == IF Has(Config.audio, "fileVolumes") THEN Config.audio.fileVolumes
                     ELSE <<>>
      volume == IF source \in DOMAIN fileVolumes
                THEN (vols[type] * fileVolumes[source]) \div 100
                ELSE vols[type]
  IN  Min(100, volume)

(***************************************************************************)
(* LightingController: request bodies.                                     *)
(***************************************************************************)
effectMap(name) ==
  CASE name = "Solid" -> 0
    [] name = "Blink" -> 1
    [] name = "Breathe" -> 2
    [] name = "Wipe" -> 3
    [] name = "Chase" -> 28
    [] name = "Fire" -> 44
    [] name = "Flicker" -> 96
    [] name = "Candle Multi" -> 88
    [] OTHER -> 0

\* this.previousState.wled: the saved device snapshot; nothing on the paths of
\* SceneManager assigns it.
previousState == [wled |-> None]

\* Math.round(ms / 100)
Deciseconds(ms) == (ms + 50) \div 100

\* setWLEDState: the body that is posted (state.lor = 2 when the override is on).
setWLEDState(state) ==
  IF shouldOverrideDDP THEN Put(state, "lor", 2) ELSE state

\* applyWLEDConfig: the state object built from a wled configuration.
applyWLEDConfig(config) ==
  LET s0 == [on |-> TRUE]
      s1 == IF Has(config, "brightness") THEN Put(s0, "bri", config.brightness) ELSE s0
      s2 == IF Has(config, "color") THEN Put(s1, "col", config.color) ELSE s1
      s3 == IF Has(config, "effect") THEN Put(s2, "fx", effectMap(config.effect)) ELSE s2
      s4 == IF Has(config, "speed") THEN Put(s3, "sx", Min(255, Max(0, config.speed))) ELSE s3
      s5 == IF Has(config, "intensity") THEN Put(s4, "ix", Min(255, Max(0, config.intensity))) ELSE s4
      s6 == IF Has(config, "duration")
            THEN Put(s5, "transition", Min(255, Deciseconds(config.duration))) ELSE s5
  IN  setWLEDState(s6)

\* turnOffAll: the power-off body; fadeMs = 0 stands for an omitted fadeDuration.
turnOffState(fadeMs) ==
  LET s0 == [on |-> FALSE]
      s1 == IF fadeMs > 0 THEN Put(s0, "transition", Min(255, Deciseconds(fadeMs))) ELSE s0
  IN  setWLEDState(s1)

(***************************************************************************)
(* The operations as programs: the awaited calls of each async function,   *)
(* in source order.  Exec below runs a program up to its next suspension.  *)
(***************************************************************************)
Tag(prog, ph, ev) == [k \in 1..Len(prog) |-> prog[k] @@ [ph |-> ph, ev |-> ev]]

\* A fetch outside any try/catch: a failure would propagate to the caller.
fetchWledUnguarded(body) ==
  [i |-> "fetch", svc |-> "wled", body |-> body, guarded |-> FALSE]

\* The fetch of setWLEDState, inside its try/catch.
fetchWled(body) == [i |-> "fetch", svc |-> "wled", body |-> body, guarded |-> TRUE]

sendHomeAssistantCommand(command) ==
  IF isHomeAssistantEnabled
  THEN <<[i |-> "fetch", svc |-> "ha", body |-> command, guarded |-> TRUE]>>
  ELSE <<>>

wledConfigCall(config) ==
  IF isWLEDEnabled THEN <<fetchWled(applyWLEDConfig(config))>> ELSE <<>>

\* applySceneLighting that writes the fade duration into the descriptor it was
\* handed instead of into a copy.
applySceneLightingInPlace(lightingConfig, fadeMs) ==
  IF Has(lightingConfig, "wled")
  THEN (IF fadeMs > 0
        THEN <<[i |-> "write", copy |-> FALSE, obj |-> lightingConfig.wled,
                field |-> "duration", v |-> fadeMs]>>
        ELSE <<>>)
       \o wledConfigCall(IF fadeMs > 0
                          THEN Put(lightingConfig.wled, "duration", fadeMs)
                          ELSE lightingConfig.wled)
  ELSE <<>>

\* applySceneLighting(lightingConfig, fadeDuration): the duration is written into a
\* copy of the wled descriptor ({ ...lightingConfig.wled }), which is then applied;
\* an array of hub commands is sent one by one, each followed by a delay.
applySceneLighting(lightingConfig, fadeMs) ==
  LET wledPart ==
        IF Has(lightingConfig, "wled")
        THEN (IF fadeMs > 0
              THEN <<[i |-> "write", copy |-> TRUE, obj |-> lightingConfig.wled,
                      field |-> "duration", v |-> fadeMs]>>
              ELSE <<>>)
             \o wledConfigCall(IF fadeMs > 0
                                THEN Put(lightingConfig.wled, "duration", fadeMs)
                                ELSE lightingConfig.wled)
        ELSE <<>>
      haPart ==
        IF Has(lightingConfig, "homeAssistant")
        THEN IF lightingConfig.homeAssistant.isArray
             THEN Flatten([k \in 1..Len(lightingConfig.homeAssistant.items) |->
                             sendHomeAssistantCommand(lightingConfig.homeAssistant.items[k])
                             \o <<[i |-> "delay", ms |-> 100]>>])
             ELSE sendHomeAssistantCommand(lightingConfig.homeAssistant)
        ELSE <<>>
  IN  wledPart \o haPart

turnOffAll(fadeMs) ==
  IF isWLEDEnabled
  THEN <<fetchWled(turnOffState(fadeMs))>>
       \o (IF shouldReenableDDPOnStop THEN <<fetchWled([lor |-> 0])>> ELSE <<>>)
  ELSE <<>>

stopAmbient(detached) == <<[i |-> "fadeOut", cat |-> "ambient", detached |-> detached]>>

stopTriggers == <<[i |-> "fadeOut", cat |-> "trigger", detached |-> FALSE]>>

\* playAmbient that starts the new layers without stopping the old ones first.
playAmbientNoStop(sources) ==
  [k \in 1..Len(sources) |-> [i |-> "play", cat |-> "ambient", src |-> sources[k], guarded |-> TRUE]]

playAmbient(sources) ==
  stopAmbient(FALSE)
  \o [k \in 1..Len(sources) |-> [i |-> "play", cat |-> "ambient", src |-> sources[k], guarded |-> TRUE]]

stopMusic == <<[i |-> "fadeOut", cat |-> "music", detached |-> FALSE]>>

\* The playlist files the server has: the lines of each, a track line with its path
\* resolved against the directory of the playlist.
PlaylistFiles ==
  [p \in {"sets/night.m3u"} |->
     <<[kind |-> "comment", path |-> "#EXTM3U"],
       [kind |-> "track", path |-> "sets/n1.mp3"],
       [kind |-> "blank", path |-> ""],
       [kind |-> "track", path |-> "sets/n2.mp3"],
       [kind |-> "track", path |-> "sets/n3.mp3"]>>]

\* source.endsWith('.m3u')
endsWithM3U(source) == source \in {"sets/night.m3u", "sets/lost.m3u"}

\* parseM3U(playlistPath) once its request has returned: the track lines in order,
\* no track when the file could not be loaded.
parseM3U(playlistPath, ok) ==
  IF ~ok \/ playlistPath \notin DOMAIN PlaylistFiles THEN <<>>
  ELSE LET lines == SelectSeq(PlaylistFiles[playlistPath], LAMBDA l : l.kind = "track")
       IN  [k \in 1..Len(lines) |-> lines[k].path]

\* playMusic for a playlist reference, from the return of parseM3U on: tracks.music
\* is assigned the source and the element that was created for it is started.
playMusicParsed(source, tracks, shuffle, shuffled) ==
  IF Len(tracks) = 0 THEN <<>>
  ELSE <<[i |-> "load", loaded |-> TRUE, list |-> tracks, shuffle |-> shuffle,
          shuffled |-> IF shuffle THEN shuffled ELSE <<>>],
         [i |-> "play", cat |-> "music", src |-> source, loop |-> FALSE,
          guarded |-> TRUE]>>

\* playMusic(source, loop, shuffle) for an array of tracks (arg.isList), a playlist
\* reference or a single file (arg.source holds the one name); arg.shuffled is the
\* order shuffleArray draws.
playMusic(arg) ==
  IF arg.source = <<>> /\ ~arg.isList THEN <<>>
  ELSE
    stopMusic
    \o (IF arg.isList
        THEN LET playlist == IF arg.shuffle THEN arg.shuffled ELSE arg.source IN
             <<[i |-> "load", loaded |-> TRUE, list |-> arg.source, shuffle |-> arg.shuffle,
                shuffled |-> IF arg.shuffle THEN arg.shuffled ELSE <<>>]>>
             \o (IF Len(playlist) = 0 THEN <<>>
                 ELSE <<[i |-> "play", cat |-> "music", src |-> playlist[1],
                         loop |-> FALSE, guarded |-> TRUE]>>)
        ELSE IF endsWithM3U(arg.source[1])
        THEN <<[i |-> "create", cat |-> "music", src |-> arg.source[1]],
               [i |-> "fetch", svc |-> "file", body |-> [url |-> arg.source[1]],
                guarded |-> TRUE],
               [i |-> "parsed", src |-> arg.source[1], shuffle |-> arg.shuffle,
                shuffled |-> arg.shuffled]>>
        ELSE <<[i |-> "load", loaded |-> FALSE, list |-> <<>>, shuffle |-> FALSE,
                shuffled |-> <<>>],
               [i |-> "play", cat |-> "music", src |-> arg.source[1], loop |-> arg.loop,
                guarded |-> TRUE]>>)

playTrigger(source) ==
  <<[i |-> "play", cat |-> "trigger", src |-> source, guarded |-> TRUE]>>

\* stopScene, called with activeScene = as.
stopScene(as) ==
  IF as = None THEN <<>>
  ELSE Tag(stopAmbient(TRUE) \o turnOffAll(lightingFadeDuration)
           \o <<[i |-> "setActive", v |-> None]>>, "stop", 0)

\* startScene that re-applies a scene that is already active instead of toggling it.
startSceneNoToggle(sceneId, as) ==
  IF sceneId \notin SceneIds THEN <<>>
  ELSE LET scene == getScene(sceneId) IN
       stopScene(as)
       \o Tag(<<[i |-> "setActive", v |-> sceneId]>>
              \o (IF Has(scene, "audio") /\ Has(scene.audio, "ambient")
                  THEN playAmbient(scene.audio.ambient) ELSE <<>>)
              \o (IF Has(scene, "lighting")
                  THEN applySceneLighting(scene.lighting, lightingFadeDuration) ELSE <<>>),
              "scene", 0)

\* startScene variant that also starts the music the scene names.
startSceneWithMusic(sceneId, as) ==
  IF sceneId \notin SceneIds THEN <<>>
  ELSE IF as = sceneId THEN stopScene(as)
  ELSE LET scene == getScene(sceneId) IN
       stopScene(as)
       \o Tag(<<[i |-> "setActive", v |-> sceneId]>>
              \o (IF Has(scene, "audio") /\ Has(scene.audio, "music")
                  THEN playMusic([source |-> <<scene.audio.music>>, isList |-> FALSE,
                                  loop |-> TRUE, shuffle |-> FALSE, shuffled |-> <<>>])
                  ELSE <<>>)
              \o (IF Has(scene, "audio") /\ Has(scene.audio, "ambient")
                  THEN playAmbient(scene.audio.ambient) ELSE <<>>)
              \o (IF Has(scene, "lighting")
                  THEN applySceneLighting(scene.lighting, lightingFadeDuration) ELSE <<>>),
              "scene", 0)

\* startScene(sceneId), called with activeScene = as.
startScene(sceneId, as) ==
  IF sceneId \notin SceneIds THEN <<>>
  ELSE IF as = sceneId THEN stopScene(as)
  ELSE LET scene == getScene(sceneId) IN
       stopScene(as)
       \o Tag(<<[i |-> "setActive", v |-> sceneId]>>
              \o (IF Has(scene, "audio") /\ Has(scene.audio, "ambient")
                  THEN playAmbient(scene.audio.ambient) ELSE <<>>)
              \o (IF Has(scene, "lighting")
                  THEN applySceneLighting(scene.lighting, lightingFadeDuration) ELSE <<>>),
              "scene", 0)

\* One event of executeSequence: the delay, then the audio and lighting calls.
eventCalls(event) ==
  <<[i |-> "delay", ms |-> event.delay]>>
  \o (IF Has(event, "audio") /\ Has(event.audio, "trigger")
      THEN playTrigger(event.audio.trigger) ELSE <<>>)
  \o (IF Has(event, "audio") /\ Has(event.audio, "ambient")
      THEN playAmbient(event.audio.ambient) ELSE <<>>)
  \o (IF Has(event, "lighting") /\ Has(event.lighting, "wled")
      THEN wledConfigCall(event.lighting.wled) ELSE <<>>)
  \o (IF Has(event, "lighting") /\ Has(event.lighting, "homeAssistant")
      THEN sendHomeAssistantCommand(event.lighting.homeAssistant) ELSE <<>>)

\* executeSequence variants: one that returns after its first event, one that skips
\* the last event, one that walks the events backwards, and one that measures each
\* delay from the start of the sequence.
executeSequenceFirstOnly(sequence) ==
  IF sequence = <<>> THEN <<>> ELSE Tag(eventCalls(sequence[1]), "event", 1)

executeSequenceDropLast(sequence) ==
  Flatten([k \in 1..(Len(sequence) - 1) |-> Tag(eventCalls(sequence[k]), "event", k)])

executeSequenceReversed(sequence) ==
  Flatten([k \in 1..Len(sequence) |->
             Tag(eventCalls(sequence[Len(sequence) + 1 - k]), "event", Len(sequence) + 1 - k)])

RECURSIVE SumDelays(_, _)
SumDelays(sequence, k) == IF k = 0 THEN 0 ELSE sequence[k].delay + SumDelays(sequence, k - 1)

executeSequenceAbsolute(sequence) ==
  Flatten([k \in 1..Len(sequence) |->
             Tag(eventCalls([sequence[k] EXCEPT
                   !.delay = Max(0, @ - SumDelays(sequence, k - 1))]), "event", k)])

executeSequence(sequence) ==
  Flatten([k \in 1..Len(sequence) |-> Tag(eventCalls(sequence[k]), "event", k)])

HasWled(event) == Has(event, "lighting") /\ Has(event.lighting, "wled")

\* adaptTriggerToAmbient that rewrites the stored sequence in place (no clone).
adaptTriggerInPlace(sequence, as) ==
  LET solid ==
        [k \in 1..Len(sequence) |->
           IF HasWled(sequence[k])
           THEN [sequence[k] EXCEPT !.lighting.wled = Put(@, "effect", "Solid")]
           ELSE sequence[k]]
  IN  [stored |-> solid, adapted |-> solid]

\* adaptTriggerToAmbient that adds "Solid" only to the LED descriptors that name no
\* effect of their own.
adaptTriggerKeepEffect(sequence, as) ==
  LET clonedSequence ==
        [k \in 1..Len(sequence) |->
           IF HasWled(sequence[k]) /\ ~Has(sequence[k].lighting.wled, "effect")
           THEN [sequence[k] EXCEPT !.lighting.wled = Put(@, "effect", "Solid")]
           ELSE sequence[k]]
  IN  [stored |-> sequence, adapted |-> clonedSequence]

\* adaptTriggerToAmbient(sequence) with activeScene = as: the sequence it returns
\* and the stored definition it leaves behind.
adaptTriggerToAmbient(sequence, as) ==
  LET clonedSequence ==
        [k \in 1..Len(sequence) |->
           IF HasWled(sequence[k])
           THEN [sequence[k] EXCEPT !.lighting.wled = Put(@, "effect", "Solid")]
           ELSE sequence[k]]
      scene == getScene(as)
      wled == scene.lighting.wled
      ambientBrightness ==
        IF Has(wled, "brightness") /\ wled.brightness # 0 THEN wled.brightness ELSE 128
      ambientColor == IF Has(wled, "color") THEN wled.color ELSE <<128, 128, 128>>
      isFadeTarget(event) ==
        /\ HasWled(event)
        /\ Has(event.lighting.wled, "duration")
        /\ event.lighting.wled.duration > 0
        /\ event.delay > 0
      replaced ==
        [k \in 1..Len(clonedSequence) |->
           IF isFadeTarget(clonedSequence[k])
           THEN [clonedSequence[k] EXCEPT
                   !.lighting.wled = Put(Put(@, "brightness", ambientBrightness),
                                         "color", ambientColor)]
           ELSE clonedSequence[k]]
  IN  [stored  |-> sequence,
       adapted |-> IF as = None THEN clonedSequence
                   ELSE IF ~(as \in SceneIds /\ Has(scene, "lighting")
                             /\ Has(scene.lighting, "wled"))
                        THEN clonedSequence
                        ELSE replaced]

\* executeTrigger that stops the playing trigger sounds before it looks the id up.
executeTriggerStopFirst(triggerId) ==
  Tag(stopTriggers, "pre", 0)
  \o (IF triggerId \notin TriggerIds THEN <<>>
      ELSE <<[i |-> "adapt", id |-> triggerId], [i |-> "restore"]>>)

\* executeTrigger(triggerId): the lookup, stopTriggers, then the adaptation and the
\* restore, which read activeScene when they are reached.
executeTrigger(triggerId) ==
  IF triggerId \notin TriggerIds THEN <<>>
  ELSE Tag(stopTriggers, "pre", 0)
       \o <<[i |-> "adapt", id |-> triggerId], [i |-> "restore"]>>

\* A post-sequence step that turns the lights off whatever scene is active.
restoreLightingOff(as) == Tag(turnOffAll(0), "restore", 0)

\* The post-sequence step of executeTrigger, reached with activeScene = as.
restoreLighting(as) ==
  IF as # None
  THEN IF as \in SceneIds /\ Has(getScene(as), "lighting")
       THEN Tag(applySceneLighting(getScene(as).lighting, lightingFadeDuration), "restore", 0)
       ELSE <<>>
  ELSE Tag(turnOffAll(0), "restore", 0)

(***************************************************************************)
(* AudioEngine.                                                            *)
(***************************************************************************)
\* fadeOut over a list: the elements whose fade runs on a timer (a paused element
\* resolves at once).
fadeOut(list, notPaused) == {e \in Range(list) : e \in notPaused}

\* this.audioElements[cat] = []; this.tracks[cat] = []
\* (for music: tracks.music = null and the playlist fields reset; the element stays)
ClearList(G, cat) ==
  IF cat = "ambient" THEN [G EXCEPT !.ambient = <<>>]
  ELSE IF cat = "trigger" THEN [G EXCEPT !.trigger = <<>>]
  ELSE [G EXCEPT !.music = [@ EXCEPT !.track = None, !.loaded = FALSE, !.list = <<>>,
                                     !.shuffled = <<>>, !.index = 0, !.shuffle = FALSE]]

\* The elements a stop call of a category hands to fadeOut.
ListOf(G, cat) ==
  IF cat = "ambient" THEN G.ambient
  ELSE IF cat = "trigger" THEN G.trigger
  ELSE IF G.music.el = {} THEN <<>> ELSE <<CHOOSE e \in G.music.el : TRUE>>

\* Intervals of a fade: 50 steps over the duration, or a single step when the
\* elements are silent from the start (audio.volume === 0 ends the fade).
\* fadeOut variant whose interval fires once more after the last step.
FadeTicksExtraStep(vol0) == Ticks(fadeDuration) + 1

FadeTicks(vol0) ==
  IF \A e \in DOMAIN vol0 : vol0[e] = 0 THEN Ticks(fadeDuration \div 50)
  ELSE Ticks(fadeDuration)

\* this.tracks.ambient / this.tracks.trigger: pushed and cleared with the elements.
tracksOf(list) == [k \in 1..Len(list) |-> list[k].src]

(***************************************************************************)
(* Running a task from its next call up to the next real suspension.       *)
(***************************************************************************)
\* A task: the call (op, arg), what it awaits (pc, wait, cur), the calls still
\* ahead of it (prog), and its history: the calls it issued (out), the sequence it
\* runs (ran), activeScene as read by the adaptation and by the restore step, the
\* tasks in flight (over), those of them inside their sequence (seqs), the trigger
\* sounds (heard) and ambient layers (amb) playing when it was launched, the calls that failed (failed, indexes of out),
\* whether the awaited call sits in a try/catch (guarded) and how the promise of
\* the operation settles (result).
NewTask(op, arg, prog, over, heard, amb) ==
  [op |-> op, arg |-> arg, pc |-> "ready", prog |-> prog, wait |-> 0, cur |-> None,
   out |-> <<>>, inSeq |-> FALSE, elapsed |-> 0, waited |-> 0,
   adaptedFor |-> None, restoreFor |-> None, ran |-> <<>>,
   over |-> over, seqs |-> {u \in over : env.watch /\ tasks[u].inSeq}, heard |-> heard, amb |-> amb,
   failed |-> {}, guarded |-> TRUE, result |-> "pending"]

Entry(T, ins, kind, what) ==
  [kind |-> kind, ph |-> ins.ph, ev |-> ins.ev, what |-> what, at |-> T.elapsed,
   lat |-> T.waited]

\* A write to a field of a wled descriptor that is not a copy reaches the scene
\* definition the descriptor belongs to.
WriteThrough(G, obj, field, v) ==
  [G EXCEPT !.scenes =
     [id \in DOMAIN @ |->
        IF Has(@[id], "lighting") /\ Has(@[id].lighting, "wled") /\ @[id].lighting.wled = obj
        THEN [@[id] EXCEPT !.lighting.wled = Put(@, field, v)]
        ELSE @[id]]]

\* Exec(G, t) runs task t on from state G until it suspends or ends.  RunOn(Gs, t)
\* runs on from the one state of Gs, which is evaluated once.
RECURSIVE Exec(_, _), RunOn(_, _)
RunOn(Gs, t) == CHOOSE R \in {Exec(g, t) : g \in Gs} : TRUE

Exec(G, t) ==
  LET T == G.tasks[t] IN
  IF T.prog = <<>> THEN [G EXCEPT !.tasks[t].pc = "done", !.tasks[t].result = "fulfilled"]
  ELSE
    LET ins == Head(T.prog)
        G1  == [G EXCEPT !.tasks[t].prog = Tail(T.prog)]
    IN
    CASE ins.i = "setActive" ->
           RunOn({[G1 EXCEPT !.activeScene = ins.v]}, t)
      [] ins.i = "write" ->
           RunOn({IF ins.copy THEN G1 ELSE WriteThrough(G1, ins.obj, ins.field, ins.v)}, t)
      [] ins.i = "fadeOut" ->
           LET els == fadeOut(ListOf(G, ins.cat), G.playing)
               vol0 == [e \in els |-> G.elvol[e]]
               grp(w) == [els |-> els, rem |-> FadeTicks(vol0), waiter |-> w,
                          cat |-> ins.cat, vol0 |-> vol0]
           IN  IF els = {} THEN RunOn({ClearList(G1, ins.cat)}, t)
               ELSE IF ins.detached
               THEN RunOn({[G1 EXCEPT !.fades = Append(@, grp(0))]}, t)
               ELSE [G1 EXCEPT !.fades = Append(@, grp(t)), !.tasks[t].pc = "fade"]
      [] ins.i = "play" ->
           LET el == [t |-> t, src |-> ins.src, cat |-> ins.cat] IN
           [G1 EXCEPT !.ambient = IF ins.cat = "ambient" THEN Append(@, el) ELSE @,
                      !.trigger = IF ins.cat = "trigger" THEN Append(@, el) ELSE @,
                      !.music = IF ins.cat = "music"
                                THEN [@ EXCEPT !.el = {el}, !.track = ins.src, !.loop = ins.loop]
                                ELSE @,
                      !.elvol = [e \in DOMAIN @ \cup {el} |->
                                   IF e = el /\ el \notin G.music.el
                                   THEN createAudioElement(G.volumes, ins.cat, ins.src)
                                   ELSE @[e]],
                      !.playing = @ \cup {el},
                      !.tasks[t].pc = "play",
                      !.tasks[t].wait = 0,
                      !.tasks[t].cur = ins.src,
                      !.tasks[t].guarded = ins.guarded,
                      !.tasks[t].out = Append(@, Entry(T, ins, "play", ins.src))]
      [] ins.i = "fetch" ->
           [G1 EXCEPT !.lastWled = IF ins.svc = "wled" THEN ins.body ELSE @,
                      !.tasks[t].pc = "fetch",
                      !.tasks[t].wait = 0,
                      !.tasks[t].guarded = ins.guarded,
                      !.tasks[t].out = Append(@, Entry(T, ins, ins.svc, ins.body))]
      [] ins.i = "load" ->
           RunOn({[G1 EXCEPT !.music = [@ EXCEPT !.loaded = ins.loaded,
                                                  !.list = ins.list, !.shuffle = ins.shuffle,
                                                  !.shuffled = ins.shuffled, !.index = 0],
                             !.hist = [@ EXCEPT !.nexts = 0, !.prevFrom = -1,
                                                !.last = "load", !.circled = FALSE]]}, t)
      [] ins.i = "create" ->
           LET el == [t |-> t, src |-> ins.src, cat |-> ins.cat] IN
           RunOn({[G1 EXCEPT !.music = [@ EXCEPT !.el = {el}],
                             !.elvol = [e \in DOMAIN @ \cup {el} |->
                                          IF e = el
                                          THEN createAudioElement(G.volumes, ins.cat, ins.src)
                                          ELSE @[e]]]}, t)
      [] ins.i = "parsed" ->
           LET tracks == parseM3U(ins.src, Len(T.out) \notin T.failed) IN
           RunOn({[G1 EXCEPT !.tasks[t].prog =
                     Tag(playMusicParsed(ins.src, tracks, ins.shuffle, ins.shuffled),
                         ins.ph, ins.ev)]}, t)
      [] ins.i = "delay" ->
           IF ins.ms > 0
           THEN [G1 EXCEPT !.tasks[t].pc = "delay", !.tasks[t].wait = Ticks(ins.ms)]
           ELSE RunOn({G1}, t)
      [] ins.i = "adapt" ->
           LET r == adaptTriggerToAmbient(G.triggers[ins.id].sequence, G.activeScene) IN
           RunOn({[G1 EXCEPT !.triggers[ins.id].sequence = r.stored,
                             !.tasks[t].prog = executeSequence(r.adapted) \o @,
                             !.tasks[t].ran = r.adapted,
                             !.tasks[t].adaptedFor = G.activeScene,
                             !.tasks[t].inSeq = TRUE]}, t)
      [] ins.i = "restore" ->
           RunOn({[G1 EXCEPT !.tasks[t].prog = restoreLighting(G.activeScene) \o @,
                             !.tasks[t].restoreFor = G.activeScene,
                             !.tasks[t].inSeq = FALSE]}, t)

Snapshot ==
  [activeScene |-> activeScene, triggers |-> triggers, ambient |-> ambient,
   trigger |-> trigger, playing |-> playing, fades |-> fades, tasks |-> tasks,
   lastWled |-> lastWled, music |-> music, volumes |-> volumes, elvol |-> elvol,
   hist |-> hist, scenes |-> scenes, env |-> env]

\* The audio elements something still refers to: the tracked ones, the music
\* element, those playing and those a running fade holds.  The others are garbage.
Live(G) ==
  G.playing \cup Range(G.ambient) \cup Range(G.trigger) \cup G.music.el
  \cup UNION {G.fades[k].els : k \in 1..Len(G.fades)}

Commit(G) ==
  /\ activeScene' = G.activeScene
  /\ triggers' = G.triggers
  /\ ambient' = G.ambient
  /\ trigger' = G.trigger
  /\ playing' = G.playing
  /\ fades' = G.fades
  /\ tasks' = G.tasks
  /\ lastWled' = G.lastWled
  /\ music' = G.music
  /\ volumes' = G.volumes
  /\ elvol' = [e \in DOMAIN G.elvol \cap Live(G) |-> G.elvol[e]]
  /\ hist' = G.hist
  /\ env' = G.env
  /\ scenes' = G.scenes
  /\ UNCHANGED monitor

Resume(t) == \E G \in {Exec(Snapshot, t)} : Commit(G)

\* The call task t awaits fails (rejected promise or error response).  Inside a
\* try/catch the failure is logged and the function goes on; a playback start that
\* is refused leaves the element paused.  Outside, the operation ends rejected.
RECURSIVE Failures(_)
Failures(ts) == IF ts = <<>> THEN 0 ELSE Cardinality(Head(ts).failed) + Failures(Tail(ts))

Fail(t) ==
  LET T == tasks[t]
      refused == IF T.pc = "play" THEN {e \in playing : e.t = t /\ e.src = T.cur} ELSE {}
      G0 == [Snapshot EXCEPT !.tasks[t].failed = @ \cup {Len(T.out)},
                             !.playing = @ \ refused]
  IN  \E G \in {IF T.guarded THEN Exec(G0, t)
                ELSE [G0 EXCEPT !.tasks[t].pc = "done", !.tasks[t].prog = <<>>,
                                !.tasks[t].inSeq = FALSE,
                                !.tasks[t].result = "rejected"]} : Commit(G)

(***************************************************************************)
(* Actions.                                                                *)
(***************************************************************************)
\* The ids the pages' buttons offer, and an id that is not configured.
Ghost == "ghost"
SceneButtons == {"tavern", "storm"}
TriggerButtons == {"lightning", "flash"}

Frame(budget, timed, faults, sceneIds, trigs) ==
  [budget |-> budget, timed |-> timed, faults |-> faults, scenes |-> sceneIds,
   triggers |-> trigs, serial |-> faults > 0,
   musicOps |-> 0, lists |-> {}, controls |-> 0, sets |-> 0, levels |-> {},
   watch |-> FALSE]

\* The track lists the music panel can hand to playMusic.
TrackPool == <<"m1.mp3", "m2.mp3", "m3.mp3", "m4.mp3", "m5.mp3">>

\* shuffleArray(array): any reordering of the array may come out.
shuffleArray(array) ==
  {[k \in 1..Len(array) |-> array[p[k]]] :
     p \in {q \in [1..Len(array) -> 1..Len(array)] :
              \A i, j \in 1..Len(array) : q[i] = q[j] => i = j}}

\* The playMusic calls of the music panel: a single looping file, and every list of
\* up to MaxTracks tracks, in order or shuffled.
MusicCalls ==
  {[source |-> <<"theme.mp3">>, isList |-> FALSE, loop |-> TRUE, shuffle |-> FALSE,
    shuffled |-> <<>>]}
  \cup {[source |-> SubSeq(TrackPool, 1, n), isList |-> TRUE, loop |-> TRUE,
         shuffle |-> FALSE, shuffled |-> <<>>] : n \in 0..MaxTracks}
  \cup UNION {{[source |-> SubSeq(TrackPool, 1, n), isList |-> TRUE, loop |-> TRUE,
                shuffle |-> TRUE, shuffled |-> sh] : sh \in shuffleArray(SubSeq(TrackPool, 1, n))}
              : n \in 1..MaxTracks}

\* The values the volume sliders and scripts pass to setVolume, in hundredths.
Levels == {-10, 0, 30, 100, 110}

WithMusic(F, ops, lists, controls) ==
  [F EXCEPT !.musicOps = ops, !.lists = lists, !.controls = controls]

WithVolume(F, sets, levels) == [F EXCEPT !.sets = sets, !.levels = levels]

\* The state after construction, but for the trigger definitions that were loaded.
InitEngine ==
  /\ activeScene = None
  /\ scenes = Config.scenes
  /\ ambient = <<>>
  /\ trigger = <<>>
  /\ playing = {}
  /\ fades = <<>>
  /\ tasks = <<>>
  /\ lastWled = turnOffState(0)
  /\ music = [el |-> {}, track |-> None, loaded |-> FALSE, list |-> <<>>,
              shuffled |-> <<>>, index |-> 0, shuffle |-> FALSE, loop |-> FALSE]
  /\ volumes = [type \in {"music", "ambient", "trigger"} |-> getDefaultVolume(type)]
  /\ elvol = <<>>
  /\ hist = [nexts |-> 0, prevFrom |-> -1, last |-> "none", circled |-> FALSE,
             ctl |-> 0, sets |-> 0,
             set |-> [type |-> "none", volume |-> 0, reached |-> 0],
             asked |-> [type \in {"music", "ambient", "trigger"} |-> -1]]
  /\ monitor = [up |-> TRUE, FAILURE_COUNT |-> 0, checks |-> <<>>]

InitState ==
  /\ triggers = Config.triggers
  /\ InitEngine

Init ==
  /\ InitState
  /\ env = Frame(MaxOps, FALSE, 0, SceneButtons, TriggerButtons)

Program(op, arg) ==
  CASE op = "startScene" -> startScene(arg, activeScene)
    [] op = "stopScene" -> stopScene(activeScene)
    [] op = "executeTrigger" -> executeTrigger(arg)
    [] op = "stopTriggers" -> Tag(stopTriggers, "stop", 0)
    [] op = "playMusic" -> Tag(playMusic(arg), "music", 0)
    [] op = "stopMusic" -> Tag(stopMusic, "stop", 0)

\* In the runs where calls may fail (env.serial) the operator waits for an operation
\* to return before starting the next one.
MusicOps == {"playMusic", "stopMusic"}

Launched(ops) == Cardinality({u \in 1..Len(tasks) : tasks[u].op \in ops})

Launch(op, arg) ==
  /\ IF op \in MusicOps THEN Launched(MusicOps) < env.musicOps
     ELSE Len(tasks) - Launched(MusicOps) < env.budget
  /\ env.serial => \A u \in 1..Len(tasks) : tasks[u].pc = "done"
  /\ LET t == Len(tasks) + 1
         over == {u \in 1..Len(tasks) : tasks[u].pc # "done"}
         heard == {e \in playing : e.cat = "trigger"}
         amb == {e \in playing : e.cat = "ambient"}
         G0 == [Snapshot EXCEPT
                  !.tasks = Append(@, NewTask(op, arg, Program(op, arg), over, heard, amb))]
     IN  \E G \in {Exec(G0, t)} : Commit(G)

StartScene == \E id \in env.scenes : Launch("startScene", id)
StopScene == Launch("stopScene", None)
ExecuteTrigger == \E id \in env.triggers : Launch("executeTrigger", id)
StopAllTriggers == Launch("stopTriggers", None)
PlayMusic == \E call \in env.lists : Launch("playMusic", call)
StopMusic == Launch("stopMusic", None)

\* The ordering in use: playlists.shuffle ? playlists.musicShuffled : playlists.music
Playlist(M) == IF M.shuffle THEN M.shuffled ELSE M.list

HasPlaylist(M) == M.loaded /\ Len(M.list) # 0

\* playNextInPlaylist variant that stays on the last track.
playNextInPlaylistClamped(M) ==
  LET playlist == Playlist(M)
      currentIndex == Min(M.index + 1, Len(playlist) - 1)
  IN  [M EXCEPT !.index = currentIndex, !.track = playlist[currentIndex + 1]]

\* playNextInPlaylist(): the index and the track it moves to (indexes from 0).
playNextInPlaylist(M) ==
  LET playlist == Playlist(M)
      currentIndex == (M.index + 1) % Len(playlist)
  IN  [M EXCEPT !.index = currentIndex, !.track = playlist[currentIndex + 1]]

\* skipPrevious(): the index and the track it moves to.
skipPrevious(M) ==
  LET playlist == Playlist(M)
      currentIndex == (M.index - 1 + Len(playlist)) % Len(playlist)
  IN  [M EXCEPT !.index = currentIndex, !.track = playlist[currentIndex + 1]]

Control(name) == [hist EXCEPT !.ctl = @ + 1, !.last = name]

SkipNext ==
  /\ hist.ctl < env.controls
  /\ HasPlaylist(music)
  /\ music' = playNextInPlaylist(music)
  /\ playing' = playing \cup music.el
  /\ hist' = [Control("next") EXCEPT
               !.nexts = IF @ >= 0 THEN @ + 1 ELSE @,
               !.circled = @ \/ hist.nexts + 1 = Len(music.list)]
  /\ UNCHANGED <<monitor, scenes, activeScene, triggers, ambient, trigger, fades, tasks, lastWled, volumes,
                 elvol, env>>

SkipPrevious ==
  /\ hist.ctl < env.controls
  /\ HasPlaylist(music)
  /\ music' = skipPrevious(music)
  /\ playing' = playing \cup music.el
  /\ hist' = [Control("previous") EXCEPT !.nexts = -1, !.prevFrom = music.index]
  /\ UNCHANGED <<monitor, scenes, activeScene, triggers, ambient, trigger, fades, tasks, lastWled, volumes,
                 elvol, env>>

PauseMusic ==
  /\ hist.ctl < env.controls
  /\ music.el # {} /\ music.el \subseteq playing
  /\ playing' = playing \ music.el
  /\ hist' = Control("pause")
  /\ UNCHANGED <<monitor, scenes, activeScene, triggers, ambient, trigger, fades, tasks, lastWled, music,
                 volumes, elvol, env>>

ResumeMusic ==
  /\ hist.ctl < env.controls
  /\ music.el # {} /\ music.el \cap playing = {}
  /\ playing' = playing \cup music.el
  /\ hist' = Control("resume")
  /\ UNCHANGED <<monitor, scenes, activeScene, triggers, ambient, trigger, fades, tasks, lastWled, music,
                 volumes, elvol, env>>

\* The 'ended' event of a track of a list (a looping single file never ends).
MusicEnded ==
  /\ hist.ctl < env.controls
  /\ music.el # {} /\ music.el \subseteq playing /\ ~music.loop
  /\ IF HasPlaylist(music)
     THEN music' = playNextInPlaylist(music) /\ UNCHANGED playing
     ELSE playing' = playing \ music.el /\ UNCHANGED music
  /\ hist' = [Control("ended") EXCEPT !.nexts = -1]
  /\ UNCHANGED <<monitor, scenes, activeScene, triggers, ambient, trigger, fades, tasks, lastWled, volumes,
                 elvol, env>>

\* getCurrentTrack(): the path it reports, None for null.
getCurrentTrack == IF music.el = {} \/ music.track = None THEN None ELSE music.track

\* getState(): what the mixer reports for each category.
getState ==
  [music |-> [playing |-> music.track # None, track |-> music.track],
   ambient |-> [playing |-> Len(ambient) > 0, tracks |-> tracksOf(ambient)],
   trigger |-> [active |-> Len(trigger)]]

\* The elements setVolume(type, volume) reaches: audioElements[type].
ElementsOf(type) ==
  IF type = "music" THEN music.el
  ELSE IF type = "ambient" THEN Range(ambient)
  ELSE Range(trigger)

\* setVolume variant without the range check.
setVolumeUnchecked(type, volume) ==
  [volumes |-> [volumes EXCEPT ![type] = volume],
   elvol |-> [e \in DOMAIN elvol |-> IF e \in ElementsOf(type) THEN volume ELSE elvol[e]]]

\* setVolume(type, volume), in hundredths: the stored volumes and element volumes.
setVolume(type, volume) ==
  IF volume < 0 \/ volume > 100 THEN [volumes |-> volumes, elvol |-> elvol]
  ELSE [volumes |-> [volumes EXCEPT ![type] = volume],
        elvol |-> [e \in DOMAIN elvol |-> IF e \in ElementsOf(type) THEN volume ELSE elvol[e]]]

SetVolume ==
  /\ hist.sets < env.sets
  /\ \E type \in DOMAIN volumes, volume \in env.levels :
       \E r \in {setVolume(type, volume)} :
         /\ volumes' = r.volumes
         /\ elvol' = r.elvol
         /\ hist' = [hist EXCEPT !.sets = @ + 1,
                                 !.set = [type |-> type, volume |-> volume,
                                          reached |-> Cardinality(ElementsOf(type))],
                                 !.asked[type] = IF volume \in 0..100 THEN volume ELSE @]
  /\ UNCHANGED <<monitor, scenes, activeScene, triggers, ambient, trigger, playing, fades, tasks, lastWled,
                 music, env>>

\* A remote request returns (with success or failure: both are only logged).
FetchDone == \E t \in 1..Len(tasks) : tasks[t].pc = "fetch" /\ Resume(t)

\* A remote request fails: network error or error response.
FetchFail ==
  \E t \in 1..Len(tasks) : Failures(tasks) < env.faults /\ tasks[t].pc = "fetch" /\ Fail(t)

\* The browser refuses to start a playback: the promise of audio.play() rejects.
PlayFail ==
  \E t \in 1..Len(tasks) : Failures(tasks) < env.faults /\ tasks[t].pc = "play" /\ Fail(t)

\* The promise of audio.play() resolves.
PlayDone == \E t \in 1..Len(tasks) : tasks[t].pc = "play" /\ Resume(t)

\* The timer of delay(ms) fires.
DelayDone == \E t \in 1..Len(tasks) : tasks[t].pc = "delay" /\ tasks[t].wait = 0 /\ Resume(t)

\* The last interval tick of the oldest due fade group: its elements are paused, the
\* list is cleared and the awaiting caller, if any, continues.
FadeDone ==
  \E k \in 1..Len(fades) :
    /\ fades[k].rem = 0
    /\ \A j \in 1..(k - 1) : fades[j].rem > 0
    /\ \E G0 \in {[Snapshot EXCEPT
                       !.playing = @ \ fades[k].els,
                       !.elvol = [e \in DOMAIN @ |->
                                    IF e \in fades[k].els THEN fades[k].vol0[e] ELSE @[e]],
                       !.fades = SubSeq(@, 1, k - 1) \o SubSeq(@, k + 1, Len(@))]} :
         \E G1 \in {ClearList(G0, fades[k].cat)} :
           \E G \in {IF fades[k].waiter = 0 THEN G1 ELSE Exec(G1, fades[k].waiter)} :
             Commit(G)

\* The 'ended' event of a one-shot trigger sound.
Ended ==
  \E e \in playing :
    /\ e.cat = "trigger"
    /\ ~(tasks[e.t].pc = "play" /\ tasks[e.t].cur = e.src)
    /\ \E G \in {[Snapshot EXCEPT !.playing = @ \ {e},
                                   !.trigger = SelectSeq(@, LAMBDA x : x # e)]} : Commit(G)

Awaiting(T) == T.pc \in {"fetch", "play"}

\* The volumes after the interval steps of the running fades: each fade sets its
\* elements to the share of their pre-fade volume that is left.
RECURSIVE Ramp(_, _)
Ramp(vol, groups) ==
  IF groups = <<>> THEN vol
  ELSE LET g == Head(groups)
           total == Max(1, FadeTicks(g.vol0))
       IN  Ramp([e \in DOMAIN vol |->
                   IF e \in g.els THEN (g.vol0[e] * g.rem) \div total ELSE vol[e]],
                Tail(groups))

\* 500 ms pass: no timer is due.  Time is observed through the timers; a remote
\* call or playback start may stay pending for any time, and where logical time is
\* recorded (env.timed) for at most MaxLatency ticks.
Tick ==
  /\ \/ fades # <<>>
     \/ \E t \in 1..Len(tasks) : tasks[t].pc = "delay"
     \/ env.timed /\ \E t \in 1..Len(tasks) : Awaiting(tasks[t])
  /\ \A k \in 1..Len(fades) : fades[k].rem > 0
  /\ \A t \in 1..Len(tasks) :
       /\ tasks[t].pc = "delay" => tasks[t].wait > 0
       /\ (env.timed /\ Awaiting(tasks[t])) => tasks[t].wait < MaxLatency
  /\ fades' = [k \in 1..Len(fades) |-> [fades[k] EXCEPT !.rem = @ - 1]]
  /\ tasks' = [t \in 1..Len(tasks) |->
       LET T == tasks[t] IN
       [T EXCEPT !.wait = IF T.pc = "delay" THEN @ - 1
                          ELSE IF env.timed /\ Awaiting(T) THEN @ + 1 ELSE @,
                 !.elapsed = IF env.timed /\ T.inSeq THEN @ + 1 ELSE @,
                 !.waited = IF env.timed /\ T.inSeq /\ T.pc \in {"fetch", "play", "fade"}
                            THEN @ + 1 ELSE @]]
  /\ elvol' = Ramp(elvol, fades')
  /\ playing' = playing \ {e \in UNION {fades[k].els : k \in 1..Len(fades)} :
                             \E k \in 1..Len(fades) : e \in fades[k].els /\ fades[k].vol0[e] = 0}
  /\ UNCHANGED <<monitor, scenes, activeScene, triggers, ambient, trigger, lastWled, music, volumes,
                 hist, env>>

(***************************************************************************)
(* The server manager's monitor mode (server-manager.sh).                  *)
(***************************************************************************)
MAX_RETRIES == 3   \* consecutive failed health checks before a restart
MaxChecks == 7     \* health checks of one monitored run

\* One pass of the monitor loop that forgets to clear FAILURE_COUNT after a
\* successful health check.
monitor_passNoReset(FAILURE_COUNT, healthy) ==
  IF healthy THEN [FAILURE_COUNT |-> FAILURE_COUNT, restart |-> FALSE]
  ELSE IF FAILURE_COUNT + 1 >= MAX_RETRIES
       THEN [FAILURE_COUNT |-> 0, restart |-> TRUE]
       ELSE [FAILURE_COUNT |-> FAILURE_COUNT + 1, restart |-> FALSE]

\* check_server_health: the recorded process is alive and the port answers.
check_server_health(server) == server.up

\* One pass of the body of monitor_server's loop, after the sleep: the new
\* FAILURE_COUNT and whether restart_server was called.
monitor_pass(FAILURE_COUNT, healthy) ==
  IF healthy THEN [FAILURE_COUNT |-> 0, restart |-> FALSE]
  ELSE IF FAILURE_COUNT + 1 >= MAX_RETRIES
       THEN [FAILURE_COUNT |-> 0, restart |-> TRUE]
       ELSE [FAILURE_COUNT |-> FAILURE_COUNT + 1, restart |-> FALSE]

\* restart_server: stop_server, then start_server, which reports success when the
\* new process is alive after two seconds and failure otherwise.
restart_server == BOOLEAN

\* monitor_server: one turn of the loop.  The health check is made, the counter is
\* updated and, at MAX_RETRIES failures in a row, the server is restarted.
MonitorCheck ==
  /\ Len(monitor.checks) < MaxChecks
  /\ LET healthy == check_server_health(monitor)
         pass == monitor_pass(monitor.FAILURE_COUNT, healthy)
     IN  \E started \in (IF pass.restart THEN restart_server ELSE {monitor.up}) :
           monitor' = [up |-> started, FAILURE_COUNT |-> pass.FAILURE_COUNT,
                       checks |-> Append(monitor.checks,
                                         [ok |-> healthy, restarted |-> pass.restart])]
  /\ UNCHANGED <<scenes, activeScene, triggers, ambient, trigger, playing, fades, tasks,
                 lastWled, music, volumes, elvol, hist, env>>

\* The web server dies or stops answering between two health checks.
ServerDown ==
  /\ monitor.up
  /\ Len(monitor.checks) < MaxChecks
  /\ monitor' = [monitor EXCEPT !.up = FALSE]
  /\ UNCHANGED <<scenes, activeScene, triggers, ambient, trigger, playing, fades, tasks,
                 lastWled, music, volumes, elvol, hist, env>>

\* A server that did not answer answers again (the port was busy, or the operator
\* started it by hand) while its process is still the recorded one.
ServerBack ==
  /\ ~monitor.up
  /\ Len(monitor.checks) < MaxChecks
  /\ monitor' = [monitor EXCEPT !.up = TRUE]
  /\ UNCHANGED <<scenes, activeScene, triggers, ambient, trigger, playing, fades, tasks,
                 lastWled, music, volumes, elvol, hist, env>>

Next ==
  \/ StartScene
  \/ StopScene
  \/ ExecuteTrigger
  \/ StopAllTriggers
  \/ FetchDone
  \/ PlayDone
  \/ DelayDone
  \/ FadeDone
  \/ Ended
  \/ Tick

Spec == Init /\ [][Next]_vars

\* Timers fire, remote calls and playback starts return, time passes.
Fairness ==
  /\ WF_vars(FetchDone)
  /\ WF_vars(PlayDone)
  /\ WF_vars(DelayDone)
  /\ WF_vars(FadeDone)
  /\ WF_vars(Tick)

FairSpec == Spec /\ Fairness

\* One trigger execution on its own, with logical time recorded.
InitTimed ==
  /\ InitState
  /\ env = Frame(1, TRUE, 0, {}, TriggerButtons)

NextTimed ==
  \/ ExecuteTrigger
  \/ FetchDone
  \/ PlayDone
  \/ DelayDone
  \/ Ended
  \/ Tick

SpecTimed == InitTimed /\ [][NextTimed]_vars

NextTriggers ==
  \/ ExecuteTrigger
  \/ StopAllTriggers
  \/ FetchDone
  \/ PlayDone
  \/ DelayDone
  \/ FadeDone
  \/ Ended
  \/ Tick

\* The trigger channel alone: executeTrigger and stopTriggers calls, no scene.
InitTriggers ==
  /\ InitState
  /\ env = Frame(MaxTriggerOps, FALSE, 0, {}, TriggerButtons)

SpecTriggers == InitTriggers /\ [][NextTriggers]_vars

\* Ids that are not configured among the ids the operations are called with.
InitNotFound ==
  /\ InitState
  /\ env = Frame(MaxOps, FALSE, 0, {"tavern", Ghost}, {"flash", Ghost})

SpecNotFound == InitNotFound /\ [][Next]_vars

\* Remote calls and playback starts that may fail.
InitFaults ==
  /\ InitState
  /\ env = Frame(MaxFaultOps, FALSE, MaxFaults, {"tavern"}, {"flash"})

NextFaults ==
  \/ StartScene
  \/ StopScene
  \/ ExecuteTrigger
  \/ FetchDone
  \/ FetchFail
  \/ PlayDone
  \/ PlayFail
  \/ DelayDone
  \/ FadeDone
  \/ Ended
  \/ Tick

SpecFaults == InitFaults /\ [][NextFaults]_vars

\* The music panel alone: two playMusic / stopMusic calls, one after the other has
\* returned, and the transport buttons at any moment.
InitMusic ==
  /\ InitState
  /\ env = [WithMusic(Frame(0, FALSE, 0, {}, {}), 2, MusicCalls, MaxControls)
             EXCEPT !.serial = TRUE]

NextMusic ==
  \/ PlayMusic
  \/ StopMusic
  \/ SkipNext
  \/ SkipPrevious
  \/ PauseMusic
  \/ ResumeMusic
  \/ MusicEnded
  \/ PlayDone
  \/ FadeDone
  \/ Tick

SpecMusic == InitMusic /\ [][NextMusic]_vars

\* Music next to scenes and triggers.
InitMixed ==
  /\ InitState
  /\ env = WithMusic(Frame(2, FALSE, 0, {"tavern"}, {"rumble"}), 1,
                     {c \in MusicCalls : c.isList /\ ~c.shuffle /\ Len(c.source) = 2},
                     MaxControls - 2)

NextMixed ==
  \/ StartScene
  \/ StopScene
  \/ ExecuteTrigger
  \/ PlayMusic
  \/ StopMusic
  \/ SkipNext
  \/ SkipPrevious
  \/ PauseMusic
  \/ ResumeMusic
  \/ MusicEnded
  \/ FetchDone
  \/ PlayDone
  \/ FadeDone
  \/ Tick

SpecMixed == InitMixed /\ [][NextMixed]_vars

\* Playback starts that the browser refuses, in each of the three categories.
InitRefused ==
  /\ InitState
  /\ env = WithMusic(Frame(MaxFaultOps, FALSE, 1, {"storm"}, {"flash"}), 1,
                     {c \in MusicCalls : ~c.isList}, 0)

NextRefused ==
  \/ StartScene
  \/ ExecuteTrigger
  \/ PlayMusic
  \/ FetchDone
  \/ PlayDone
  \/ PlayFail
  \/ DelayDone
  \/ FadeDone
  \/ Ended
  \/ Tick

SpecRefused == InitRefused /\ [][NextRefused]_vars

\* The volume sliders next to audio of the three categories; the operations are
\* started one after the other and the sliders move at any moment.
InitVolume ==
  /\ InitState
  /\ env = [WithVolume(WithMusic(Frame(MaxOps, FALSE, 0, {"tavern"}, {"flash"}), 1,
                                 {c \in MusicCalls : ~c.isList}, 0),
                       MaxVolumeSets, Levels) EXCEPT !.serial = TRUE]

NextVolume ==
  \/ StartScene
  \/ ExecuteTrigger
  \/ PlayMusic
  \/ SetVolume
  \/ FetchDone
  \/ PlayDone
  \/ DelayDone
  \/ FadeDone
  \/ Tick

SpecVolume == InitVolume /\ [][NextVolume]_vars

\* The monitor mode alone: health checks of a server that may die and come back.
NextMonitor == MonitorCheck \/ ServerDown \/ ServerBack

SpecMonitor == Init /\ [][NextMonitor]_vars

\* A scene, a trigger and stopScene: the three operations may overlap in any way,
\* and each call records the sequences in flight when it is made (env.watch).
InitStopDuring ==
  /\ InitState
  /\ env = [Frame(3, FALSE, 0, {"storm"}, {"flash"}) EXCEPT !.watch = TRUE]

NextStopDuring ==
  \/ StartScene
  \/ StopScene
  \/ ExecuteTrigger
  \/ FetchDone
  \/ PlayDone
  \/ DelayDone
  \/ FadeDone
  \/ Ended
  \/ Tick

SpecStopDuring == InitStopDuring /\ [][NextStopDuring]_vars

\* Triggers run over scenes whose lighting is dark (brightness 0) or names neither
\* brightness nor color, and with no scene.
InitAdapt ==
  /\ InitState
  /\ env = Frame(MaxOps, FALSE, 0, {"dark", "bare"}, TriggerButtons)

SpecAdapt == InitAdapt /\ [][Next]_vars

\* The LED descriptors a configuration file may hold: any integers in the numeric
\* fields, among them values below and above the device range.
WledIntents ==
  [brightness : {-5, 0, 255, 300}, speed : {-1, 128, 256}, intensity : {-1, 128, 256},
   duration : {-200, 0, 1040, 30000}]

\* One trigger whose event carries any of those descriptors, run on its own.
InitRanges ==
  /\ InitEngine
  /\ \E intent \in WledIntents :
       triggers = [Config.triggers EXCEPT !.probe.sequence[1].lighting.wled = intent]
  /\ env = Frame(1, FALSE, 0, {}, {"probe"})

NextRanges == ExecuteTrigger \/ FetchDone

SpecRanges == InitRanges /\ [][NextRanges]_vars

\* Scenes and a trigger whose lighting addresses the hub, with one command and with
\* an array of commands.
InitHub ==
  /\ InitState
  /\ env = Frame(MaxOps, FALSE, 0, {"hall", "study"}, {"chime"})

NextHub ==
  \/ StartScene
  \/ ExecuteTrigger
  \/ FetchDone
  \/ PlayDone
  \/ DelayDone
  \/ FadeDone
  \/ Tick

SpecHub == InitHub /\ [][NextHub]_vars

\* Track lists that hold a file with a volume multiplier of its own, next to files
\* without one.
QuietLists ==
  {[source |-> src, isList |-> TRUE, loop |-> TRUE, shuffle |-> FALSE, shuffled |-> <<>>] :
     src \in {<<"m1.mp3", "quiet.mp3">>, <<"quiet.mp3", "m1.mp3", "m2.mp3">>}}

InitTrackVolume ==
  /\ InitState
  /\ env = [WithMusic(Frame(0, FALSE, 0, {}, {}), 2, QuietLists, MaxControls)
             EXCEPT !.serial = TRUE]

SpecTrackVolume == InitTrackVolume /\ [][NextMusic]_vars

\* playMusic calls that overlap: a call may be made while an earlier one is still
\* suspended in its fade-out or in its playback start.
InitMusicRace ==
  /\ InitState
  /\ env = WithMusic(Frame(0, FALSE, 0, {}, {}), 3, {c \in MusicCalls : ~c.isList}, 0)

NextMusicRace ==
  \/ PlayMusic
  \/ PlayDone
  \/ FadeDone
  \/ Tick

SpecMusicRace == InitMusicRace /\ [][NextMusicRace]_vars

(***************************************************************************)
(* Vocabulary of the properties.                                           *)
(***************************************************************************)
Tasks == 1..Len(tasks)
Done(t) == tasks[t].pc = "done"
IsStart(t) == tasks[t].op = "startScene"
IsSceneOp(t) == tasks[t].op \in {"startScene", "stopScene"}
IsTrigger(t) == tasks[t].op = "executeTrigger"
Quiescent == fades = <<>> /\ \A t \in Tasks : Done(t)

\* The ambient layers of the scene started by task t that are playing.
LayersOf(t) == {e \in playing : e.cat = "ambient" /\ e.t = t}

\* Every operation so far was launched when all earlier ones had completed.
Sequential == \A t \in Tasks : tasks[t].over = {}

\* Task t has begun to apply its scene: a layer started or its lighting sent.
Applying(t) == \E k \in 1..Len(tasks[t].out) : tasks[t].out[k].ph = "scene"

\* In the calls of task t, a power-off LED request precedes every call of the
\* scene it starts.
OffBeforeScene(t) ==
  LET out == tasks[t].out IN
  \A k \in 1..Len(out) :
    out[k].ph = "scene" =>
      \E j \in 1..(k - 1) :
        out[j].ph = "stop" /\ out[j].kind = "wled" /\ out[j].what.on = FALSE

C9_NoSceneOverlap ==
  \A e1, e2 \in playing :
    (e1.cat = "ambient" /\ e2.cat = "ambient" /\ IsStart(e1.t) /\ IsStart(e2.t))
    => tasks[e1.t].arg = tasks[e2.t].arg

\* C2 (toggle law): startScene(A), completed, followed by a second startScene(A) or
\* by stopScene(), with nothing else launched, ends with activeScene = none, and
\* once the fades are over both end in one and the same state: no scene, no
\* tracked ambient layer, nothing playing, last LED request a power-off.
C2_Final == <<activeScene, tracksOf(ambient), playing, lastWled.on>>

C2_ToggleLaw ==
  (/\ Len(tasks) = 2
   /\ IsStart(1) /\ Applying(1)
   /\ tasks[2].over = {}
   /\ \/ IsStart(2) /\ tasks[2].arg = tasks[1].arg
      \/ tasks[2].op = "stopScene"
   /\ Done(2))
  => /\ activeScene = None
     /\ tasks[2].out = <<[kind |-> "wled", ph |-> "stop", ev |-> 0,
                          what |-> [on |-> FALSE, transition |-> 10, lor |-> 2],
                          at |-> 0, lat |-> 0]>>
     /\ Quiescent => C2_Final = <<None, <<>>, {}, FALSE>>

C2_Witness ==
  /\ Len(tasks) = 2 /\ IsStart(1) /\ Applying(1) /\ tasks[2].over = {}
  /\ IsStart(2) /\ tasks[2].arg = tasks[1].arg
  /\ Quiescent /\ activeScene = None

\* The lighting events of a sequence, those task t has issued and those it still
\* has ahead.
LightingEvents(sequence) == {k \in 1..Len(sequence) : HasWled(sequence[k])}

IssuedLighting(t) ==
  {tasks[t].out[k].ev : k \in {j \in 1..Len(tasks[t].out) :
      tasks[t].out[j].ph = "event" /\ tasks[t].out[j].kind = "wled"}}

PendingLighting(t) ==
  {tasks[t].prog[k].ev : k \in {j \in 1..Len(tasks[t].prog) :
      /\ tasks[t].prog[j].i = "fetch"
      /\ tasks[t].prog[j].svc = "wled"
      /\ tasks[t].prog[j].ph = "event"}}

Started(t) == IsTrigger(t) /\ tasks[t].ran # <<>>

StoredSequence(t) == Config.triggers[tasks[t].arg].sequence

\* C3 (trigger non-exclusivity): of two trigger executions that overlap, neither
\* loses a lighting event to the other: at every moment each lighting event of its
\* sequence is issued or still ahead, and when it has completed all are issued.
C3_TriggersIndependent ==
  \A x, y \in Tasks :
    (Started(x) /\ IsTrigger(y) /\ x \in tasks[y].over)
    => \A t \in {x, y} :
         Started(t) =>
           /\ IssuedLighting(t) \cup PendingLighting(t) = LightingEvents(StoredSequence(t))
           /\ Done(t) => IssuedLighting(t) = LightingEvents(StoredSequence(t))

C3_Witness ==
  \E x, y \in Tasks :
    /\ Started(x) /\ Started(y) /\ x \in tasks[y].over
    /\ tasks[x].inSeq /\ tasks[y].inSeq
    /\ IssuedLighting(x) # {} /\ IssuedLighting(y) # {}
    /\ PendingLighting(x) # {}

\* C4 (trigger audio exclusivity): a trigger sound that is playing when
\* executeTrigger(Y) is launched is stopped and no longer tracked once Y's
\* sequence has issued its first event.
C4_HeardSoundsStopped ==
  \A y \in Tasks :
    (IsTrigger(y) /\ \E k \in 1..Len(tasks[y].out) : tasks[y].out[k].ph = "event")
    => \A e \in tasks[y].heard : e \notin playing /\ e \notin Range(trigger)

\* The last LED request task t issued.
LedRequests(t) == SelectSeq(tasks[t].out, LAMBDA r : r.kind = "wled")
LastLed(t) == LedRequests(t)[Len(LedRequests(t))]

IsSceneLighting(req, S) ==
  LET w == Config.scenes[S].lighting.wled IN
  /\ req.on = TRUE
  /\ Has(req, "bri") /\ req.bri = w.brightness
  /\ Has(req, "col") /\ req.col = w.color
  /\ Has(w, "effect") => (Has(req, "fx") /\ req.fx = effectMap(w.effect))
  /\ Has(req, "transition") /\ req.transition * 100 = lightingFadeDuration

\* C5 (restore postcondition): the final LED request of every completed
\* executeTrigger is the lighting of the scene that was active when its sequence
\* finished, and a power-off request when none was.
C5_RestorePostcondition ==
  \A t \in Tasks :
    (Started(t) /\ Done(t))
    => /\ LedRequests(t) # <<>>
       /\ LastLed(t).ph = "restore"
       /\ IF tasks[t].restoreFor = None
          THEN LastLed(t).what.on = FALSE
          ELSE IsSceneLighting(LastLed(t).what, tasks[t].restoreFor)

C5_Witness ==
  \E t \in Tasks :
    /\ Started(t) /\ Done(t)
    /\ tasks[t].restoreFor # None
    /\ tasks[t].adaptedFor = None

\* C6 (adaptation leaves the source alone): every stored trigger definition equals
\* its value at load time, in every reachable state.
C6_StoredTriggersUnchanged == triggers = Config.triggers

C6_Witness ==
  \E t \in Tasks :
    /\ Started(t) /\ tasks[t].adaptedFor # None
    /\ \E k \in 1..Len(tasks[t].ran) :
         /\ HasWled(tasks[t].ran[k])
         /\ Has(tasks[t].ran[k].lighting.wled, "brightness")
         /\ tasks[t].ran[k].lighting.wled.brightness
              # StoredSequence(t)[k].lighting.wled.brightness

\* Ticks of delay that precede the calls of event k of a sequence.
RECURSIVE CumTicks(_, _)
CumTicks(sequence, k) ==
  IF k = 0 THEN 0 ELSE Ticks(sequence[k].delay) + CumTicks(sequence, k - 1)

EventEntries(t) == SelectSeq(tasks[t].out, LAMBDA r : r.ph = "event")

\* C7 (relative delays): every call of event k is issued when the delays of events
\* 1..k have elapsed one after another, plus the time the execution spent awaiting
\* its earlier calls (so never earlier than the sum of the delays); with no time
\* spent awaiting, the calls of delays [0,1500,1500] are issued at 0, 1500, 3000 ms.
C7_RelativeDelays ==
  \A t \in Tasks :
    Started(t) =>
      \A k \in 1..Len(EventEntries(t)) :
        LET r == EventEntries(t)[k] IN
        /\ r.at = CumTicks(tasks[t].ran, r.ev) + r.lat
        /\ r.at >= CumTicks(tasks[t].ran, r.ev)
        /\ (tasks[t].arg = "lightning" /\ r.lat = 0)
             => r.at * 500 = <<0, 1500, 3000>>[r.ev]

C7_Witness ==
  \E t \in Tasks :
    /\ Started(t) /\ Done(t) /\ tasks[t].arg = "lightning"
    /\ \E k \in 1..Len(EventEntries(t)) :
         LET r == EventEntries(t)[k] IN
         r.ev = 3 /\ r.kind = "wled" /\ r.at = 6 /\ r.lat = 0

\* The calls one event makes.
NumCalls(event) ==
  (IF Has(event, "audio") /\ Has(event.audio, "trigger") THEN 1 ELSE 0)
  + (IF Has(event, "audio") /\ Has(event.audio, "ambient") THEN Len(event.audio.ambient) ELSE 0)
  + (IF HasWled(event) THEN 1 ELSE 0)
  + (IF Has(event, "lighting") /\ Has(event.lighting, "homeAssistant") THEN 1 ELSE 0)

\* C8 (declared order): in the calls of one trigger execution the event index never
\* decreases, and when a call of event j is issued every call of each event i < j
\* has been issued before it, whatever other operations interleave.
C8_EventsInOrder ==
  \A t \in Tasks :
    Started(t) =>
      LET E == EventEntries(t) IN
      \A k \in 1..Len(E) :
        /\ k > 1 => E[k - 1].ev <= E[k].ev
        /\ \A i \in 1..(E[k].ev - 1) :
             Cardinality({j \in 1..(k - 1) : E[j].ev = i}) = NumCalls(tasks[t].ran[i])

C8_Witness ==
  \E t, u \in Tasks :
    /\ Started(t) /\ Done(t) /\ tasks[t].arg = "flash"
    /\ t \in tasks[u].over
    /\ Len(EventEntries(t)) = 4

InSequence(t) == IF t \in Tasks THEN tasks[t].inSeq ELSE FALSE

RanToRestore(t) ==
  IF t \in Tasks /\ Started(t) /\ Done(t)
  THEN /\ IssuedLighting(t) = LightingEvents(StoredSequence(t))
       /\ LastLed(t).ph = "restore"
  ELSE FALSE

NotFound(T) ==
  \/ T.op = "startScene" /\ T.arg \notin SceneIds
  \/ T.op = "executeTrigger" /\ T.arg \notin TriggerIds

\* C11 (NotFound has no side effects): a startScene or executeTrigger call with an
\* id absent from the configuration changes neither activeScene nor any tracked
\* or playing audio nor a pending fade, sends no request and leaves every other
\* operation as it was; the call itself has returned.
C11_NotFoundNoEffect ==
  [][(Len(tasks') = Len(tasks) + 1 /\ NotFound(tasks'[Len(tasks')]))
       => /\ UNCHANGED <<activeScene, triggers, ambient, trigger, playing, fades, lastWled,
                         music, volumes, elvol>>
          /\ SubSeq(tasks', 1, Len(tasks)) = tasks
          /\ tasks'[Len(tasks')].out = <<>>
          /\ tasks'[Len(tasks')].pc = "done"]_vars

C11_Witness ==
  \E t \in Tasks :
    /\ NotFound(tasks[t]) /\ IsTrigger(t)
    /\ tasks[t].heard # {}
    /\ tasks[t].heard \subseteq playing
    /\ tasks[t].heard \subseteq Range(trigger)

\* C12 (NotFound is surfaced): a startScene or executeTrigger call with an id absent
\* from the configuration ends rejected.
C12_NotFoundRejected ==
  \A t \in Tasks : (NotFound(tasks[t]) /\ Done(t)) => tasks[t].result = "rejected"

RECURSIVE TotalCalls(_)
TotalCalls(sequence) ==
  IF sequence = <<>> THEN 0 ELSE NumCalls(Head(sequence)) + TotalCalls(Tail(sequence))

RestoreRequests(t) ==
  SelectSeq(EventEntries(t),
            LAMBDA r : /\ r.kind = "wled"
                       /\ Has(tasks[t].ran[r.ev].lighting.wled, "restore")
                       /\ tasks[t].ran[r.ev].lighting.wled.restore = TRUE)

\* C14 (restore events replay the snapshot): the request issued for a trigger event
\* whose wled intent has restore = true is the saved device snapshot, and none is
\* issued when nothing was saved; it is never a power-on request built from the
\* fields of the intent.
C14_RestoreReplaysSnapshot ==
  \A t \in Tasks :
    Started(t) =>
      \A k \in 1..Len(RestoreRequests(t)) :
        /\ previousState.wled # None
        /\ RestoreRequests(t)[k].what = previousState.wled

\* C16 (triggers do not stop the scene): an executeTrigger that ran with no other
\* operation in flight leaves activeScene as it was, and the layers of the active
\* scene that were playing when it was launched are playing when it completes.
C16_TriggerKeepsScene ==
  \A t \in Tasks :
    (/\ Started(t) /\ Done(t)
     /\ tasks[t].over = {}
     /\ \A u \in Tasks : t \notin tasks[u].over
     /\ tasks[t].adaptedFor # None)
    => /\ tasks[t].restoreFor = tasks[t].adaptedFor
       /\ (Len(tasks) = t => activeScene = tasks[t].adaptedFor)
       /\ \A e \in tasks[t].amb :
            (IsStart(e.t) /\ tasks[e.t].arg = tasks[t].adaptedFor) => e \in playing

\* The playMusic and stopMusic calls made so far, each with what it has done.
MusicTasks == {<<t, tasks[t]>> : t \in {u \in Tasks : tasks[u].op \in MusicOps}}

MusicAudible == music.el # {} /\ music.el \subseteq playing

C17_PlaylistWraps ==
  HasPlaylist(music) =>
    LET N == Len(music.list) IN
    /\ (hist.last = "next" /\ hist.nexts >= 0) =>
          /\ music.index = hist.nexts % N
          /\ hist.nexts = N => music.index = 0
          /\ music.track = Playlist(music)[music.index + 1]
    /\ (hist.last = "previous" /\ hist.prevFrom = 0) =>
          /\ music.index = N - 1
          /\ music.track = Playlist(music)[N]

C17_Witness ==
  /\ HasPlaylist(music)
  /\ Len(music.list) = MaxTracks
  /\ music.shuffle /\ music.shuffled # music.list
  /\ hist.circled /\ hist.last = "previous" /\ hist.prevFrom = 0
  /\ music.index = MaxTracks - 1

\* The elements whose playback start was refused: created by a play call that failed.
Refused ==
  {e \in DOMAIN elvol :
     \E k \in tasks[e.t].failed :
       tasks[e.t].out[k].kind = "play" /\ tasks[e.t].out[k].what = e.src}

Reported(cat) ==
  CASE cat = "music" -> getState.music.playing
    [] cat = "ambient" -> getState.ambient.playing
    [] cat = "trigger" -> getState.trigger.active > 0

\* C20 (a refused playback start is tracked as not playing): once the call whose
\* play() was refused has returned, the refused element is not tracked in its
\* category, and getState does not report the category as playing when no element of
\* the category plays.
C20_RefusedNotTracked ==
  \A e \in Refused :
    Done(e.t) =>
      /\ e \notin Range(ambient) \cup Range(trigger)
      /\ ~(e \in music.el /\ music.track = e.src)
      /\ {x \in playing : x.cat = e.cat} = {} => ~Reported(e.cat)

\* A step that is a setVolume call, and the category and value it was called with.
IsSetVolume == hist'.sets = hist.sets + 1

\* C18 (volume bounds): setVolume(category, v) with v < 0 or v > 1 changes neither a
\* stored category volume nor the volume of any element of any category.
C18_OutOfRangeIgnored ==
  [][(IsSetVolume /\ hist'.set.volume \notin 0..100)
       => UNCHANGED <<volumes, elvol, playing, ambient, trigger, music>>]_vars

C18_Witness ==
  /\ hist.set.volume > 100
  /\ hist.set.type = "ambient" /\ hist.set.reached >= 2
  /\ hist.asked.ambient = -1
  /\ \A e \in Range(ambient) : e \in playing /\ elvol[e] > 0
  /\ Len(ambient) >= 2
  /\ trigger # <<>> /\ MusicAudible

\* The category volume the operator asked for last (the configured default when no
\* accepted setVolume call was made for the category).
Asked(type) == IF hist.asked[type] >= 0 THEN hist.asked[type] ELSE getDefaultVolume(type)

C21_SceneFromIdle ==
  (/\ Len(tasks) = 1 /\ IsStart(1) /\ Done(1)
   /\ tasks[1].arg \in SceneIds
   /\ ~Has(getScene(tasks[1].arg).lighting.wled, "effect"))
  => LET scene == getScene(tasks[1].arg)
         reqs == LedRequests(1)
     IN  /\ tracksOf(ambient) = scene.audio.ambient
         /\ Range(ambient) \subseteq playing
         /\ Cardinality({e \in playing : e.cat = "ambient"}) = Len(scene.audio.ambient)
         /\ Len(reqs) = 1
         /\ reqs[1].what.on = TRUE
         /\ Has(reqs[1].what, "bri") /\ reqs[1].what.bri = scene.lighting.wled.brightness
         /\ Has(reqs[1].what, "col") /\ reqs[1].what.col = scene.lighting.wled.color
         /\ Has(reqs[1].what, "fx") /\ reqs[1].what.fx = 0

\* Vocabulary of the monitor: the failed checks in a row that end at check i, counted
\* from the last successful check or the last restart.
RECURSIVE FailedInARow(_, _)
FailedInARow(checks, i) ==
  IF i = 0 \/ checks[i].ok THEN 0
  ELSE IF i > 1 /\ checks[i - 1].restarted THEN 1
  ELSE 1 + FailedInARow(checks, i - 1)

\* C22 (restart after three failures in a row): the monitor restarts the server at a
\* health check exactly when that check is the third failed one in a row since the
\* last success or restart; FAILURE_COUNT is the number of failed checks in a row,
\* so it is 0 after a success and after a restart, and it never reaches MAX_RETRIES
\* without a restart.
C22_RestartAfterThree ==
  LET checks == monitor.checks
      n == Len(checks)
  IN  /\ \A i \in 1..n :
           checks[i].restarted <=> FailedInARow(checks, i) = MAX_RETRIES
      /\ \A i \in 1..n : FailedInARow(checks, i) <= MAX_RETRIES
      /\ monitor.FAILURE_COUNT =
           IF n > 0 /\ checks[n].restarted THEN 0 ELSE FailedInARow(checks, n)
      /\ monitor.FAILURE_COUNT < MAX_RETRIES

\* A run with a restart, preceded by a failure that a success had cleared.
C22_Witness ==
  \E i, j \in 1..Len(monitor.checks) :
    /\ i + 1 < j
    /\ ~monitor.checks[i].ok /\ monitor.checks[i + 1].ok
    /\ monitor.checks[j].restarted
    /\ monitor.FAILURE_COUNT = 0

\* C23 (stopScene stops fully): when stopScene has cleared activeScene and ended,
\* every ambient layer that was playing when it was called has completed its fade
\* and is paused, and the lights-off request has been issued.  The case taken is
\* the plain one: no other operation was in flight when stopScene was called.
C23_StopSceneStopsFully ==
  \A t \in Tasks :
    (/\ tasks[t].op = "stopScene" /\ Done(t) /\ tasks[t].prog = <<>>
     /\ tasks[t].over = {} /\ tasks[t].amb # {})
    => /\ activeScene = None \/ \E u \in Tasks : u > t
       /\ tasks[t].amb \cap playing = {}
       /\ \A k \in 1..Len(fades) : fades[k].els \cap tasks[t].amb = {}
       /\ \E k \in 1..Len(tasks[t].out) :
            tasks[t].out[k].kind = "wled" /\ tasks[t].out[k].what.on = FALSE

\* C24 (fire-and-continue): the only waits between consecutive events of a sequence
\* are the events' own delays: every call of event k is issued exactly when the
\* delays of events 1..k have elapsed, whatever time the trigger sounds, ambient
\* fades and remote calls of the earlier events took, and the sequence is never
\* found suspended on one of those calls.
C24_FireAndContinue ==
  \A t \in Tasks :
    Started(t) =>
      /\ \A k \in 1..Len(EventEntries(t)) :
           EventEntries(t)[k].at = CumTicks(tasks[t].ran, EventEntries(t)[k].ev)
      /\ tasks[t].inSeq => tasks[t].waited = 0

\* C25 (stopScene during a trigger): when stopScene is called for an active scene
\* while a trigger's sequence is in flight, the trigger's restore step reads "no
\* active scene" and its last LED request is the power-off, so that, both operations
\* completed and nothing else running, the lights are off.
C25_StopDuringTrigger ==
  \A s, t \in Tasks :
    (/\ tasks[s].op = "stopScene" /\ tasks[s].out # <<>> /\ Done(s)
     /\ t \in tasks[s].seqs /\ IsTrigger(t) /\ Done(t))
    => /\ tasks[t].restoreFor = None
       /\ LedRequests(t) # <<>> /\ LastLed(t).what.on = FALSE
       /\ (\A u \in Tasks : Done(u)) => (activeScene = None => lastWled.on = FALSE)

\* Vocabulary of the adaptation: the brightness and the color of an event's LED
\* descriptor (None where the descriptor names none), and the fade-to events.
WledField(event, f) ==
  IF HasWled(event) /\ Has(event.lighting.wled, f)
  THEN [given |-> TRUE, v |-> event.lighting.wled[f]] ELSE [given |-> FALSE]

IsFadeTo(event) ==
  /\ HasWled(event) /\ Has(event.lighting.wled, "duration")
  /\ event.lighting.wled.duration > 0 /\ event.delay > 0

\* C26 (what the adaptation changes): with an active scene that has LED lighting, the
\* sequence that runs differs from the stored one in brightness and color exactly at
\* the fade-to events (wled duration > 0 and delay > 0), where it carries the scene's
\* brightness and color: the defaults 128 and [128,128,128] stand in only for a value
\* the scene omits, so an explicit brightness 0 stays 0.  With no active scene no
\* brightness or color is changed.
C26_AdaptationTargets ==
  \A t \in Tasks :
    Started(t) =>
      LET stored == StoredSequence(t)
          ran == tasks[t].ran
          S == tasks[t].adaptedFor
          wled == getScene(S).lighting.wled
      IN  /\ Len(ran) = Len(stored)
          /\ \A k \in 1..Len(ran) :
               IF S # None /\ IsFadeTo(stored[k])
               THEN /\ WledField(ran[k], "brightness") =
                         [given |-> TRUE,
                          v |-> IF Has(wled, "brightness") THEN wled.brightness ELSE 128]
                    /\ WledField(ran[k], "color") =
                         [given |-> TRUE,
                          v |-> IF Has(wled, "color") THEN wled.color ELSE <<128, 128, 128>>]
               ELSE /\ WledField(ran[k], "brightness") = WledField(stored[k], "brightness")
                    /\ WledField(ran[k], "color") = WledField(stored[k], "color")

\* C27 (trigger lighting is Solid): for every trigger and whatever scene is active,
\* every event of the sequence that runs which has an LED descriptor carries effect
\* "Solid", and every LED request issued by the events of the sequence carries
\* effect code 0.
C27_TriggerEffectSolid ==
  \A t \in Tasks :
    Started(t) =>
      /\ \A k \in 1..Len(tasks[t].ran) :
           HasWled(tasks[t].ran[k]) =>
             /\ Has(tasks[t].ran[k].lighting.wled, "effect")
             /\ tasks[t].ran[k].lighting.wled.effect = "Solid"
      /\ \A k \in 1..Len(EventEntries(t)) :
           EventEntries(t)[k].kind = "wled" =>
             /\ Has(EventEntries(t)[k].what, "fx")
             /\ EventEntries(t)[k].what.fx = 0

\* A trigger whose stored first event names the effect Blink has run to its end over
\* a scene that runs the effect Flicker, and its first event's LED request was sent.
C27_Witness ==
  \E t \in Tasks :
    /\ Started(t) /\ Done(t) /\ tasks[t].arg = "flash" /\ tasks[t].adaptedFor = "storm"
    /\ StoredSequence(t)[1].lighting.wled.effect = "Blink"
    /\ \E k \in 1..Len(EventEntries(t)) :
         /\ EventEntries(t)[k].kind = "wled" /\ EventEntries(t)[k].ev = 1
         /\ EventEntries(t)[k].what.fx = 0

\* C28 (the trigger channel is exclusive): in no state are trigger sounds started by
\* two different executeTrigger executions playing at the same time.
C28_TriggerChannelExclusive ==
  \A e1, e2 \in playing :
    (/\ e1.cat = "trigger" /\ e2.cat = "trigger"
     /\ IsTrigger(e1.t) /\ IsTrigger(e2.t))
    => e1.t = e2.t

\* Vocabulary of the LED requests: a numeric field of a request body is absent or
\* lies in the device range 0..255.
InDeviceRange(body, f) == Has(body, f) => body[f] \in 0..255

\* C29 (LED requests stay in the device range): whatever integers a lighting intent
\* holds, every LED request sent for it has its brightness, speed and intensity in
\* 0..255 and its transition (the duration in ms over 100, rounded) in 0..255.
C29_RequestsInDeviceRange ==
  \A t \in Tasks :
    \A k \in 1..Len(LedRequests(t)) :
      /\ InDeviceRange(LedRequests(t)[k].what, "bri")
      /\ InDeviceRange(LedRequests(t)[k].what, "sx")
      /\ InDeviceRange(LedRequests(t)[k].what, "ix")
      /\ InDeviceRange(LedRequests(t)[k].what, "transition")

\* Vocabulary of the hub requests: the bodies of the hub requests task t issued in
\* phase ph for event ev, in the order of issue, and the prefixes of a sequence.
HubBodies(t, ph, ev) ==
  LET reqs == SelectSeq(tasks[t].out, LAMBDA r : r.kind = "ha" /\ r.ph = ph /\ r.ev = ev)
  IN  [k \in 1..Len(reqs) |-> reqs[k].what]

IsPrefix(a, b) == Len(a) <= Len(b) /\ a = SubSeq(b, 1, Len(a))

HasHubArray(holder) ==
  /\ Has(holder, "lighting") /\ Has(holder.lighting, "homeAssistant")
  /\ holder.lighting.homeAssistant.isArray

\* C30 (one hub request per command): when the homeAssistant field of a scene's
\* lighting or of a trigger event's lighting is an array of N commands, the hub
\* requests issued for it are those N commands, one request per command, in array
\* order: at every moment the requests issued so far are a prefix of the array, and
\* all N have been issued when the operation has ended.
C30_OneRequestPerCommand ==
  \A t \in Tasks :
    /\ (/\ IsStart(t) /\ tasks[t].arg \in SceneIds
        /\ \E k \in 1..Len(tasks[t].out) : tasks[t].out[k].ph = "scene")
       => (HasHubArray(getScene(tasks[t].arg))
           => LET items == getScene(tasks[t].arg).lighting.homeAssistant.items IN
              /\ IsPrefix(HubBodies(t, "scene", 0), items)
              /\ Done(t) => HubBodies(t, "scene", 0) = items)
    /\ Started(t)
       => \A k \in 1..Len(tasks[t].ran) :
            HasHubArray(tasks[t].ran[k])
            => LET items == tasks[t].ran[k].lighting.homeAssistant.items IN
               /\ IsPrefix(HubBodies(t, "event", k), items)
               /\ Done(t) => HubBodies(t, "event", k) = items

\* C31 (stopMusic releases the channel): once a stopMusic has completed, and until
\* the next playMusic is called, getCurrentTrack returns null and no music element
\* plays, whatever transport controls are used in between.
C31_StopMusicReleases ==
  \A t \in Tasks :
    (/\ tasks[t].op = "stopMusic" /\ Done(t)
     /\ \A u \in Tasks : tasks[u].op = "playMusic" => (u < t /\ Done(u)))
    => /\ getCurrentTrack = None
       /\ \A e \in playing : e.cat # "music"

\* C32 (scene definitions are never mutated): after any sequence of startScene,
\* stopScene and executeTrigger operations, every configured scene's audio and
\* lighting descriptor equals its value at load time, although the fade duration
\* is put into the wled descriptor that is applied and the live-override flag into
\* the request that is sent.
C32_ScenesUnchanged == scenes = Config.scenes

\* A scene's lighting was sent with the fade duration and the live-override flag,
\* and a trigger adapted to that scene has restored the scene's lighting.
C32_Witness ==
  \E s, t \in Tasks :
    /\ IsStart(s) /\ Done(s) /\ LedRequests(s) # <<>>
    /\ Has(LastLed(s).what, "transition") /\ Has(LastLed(s).what, "lor")
    /\ LastLed(s).what.transition * 100 = lightingFadeDuration
    /\ ~Has(getScene(tasks[s].arg).lighting.wled, "duration")
    /\ IsTrigger(t) /\ Done(t) /\ tasks[t].adaptedFor = tasks[s].arg
    /\ tasks[t].restoreFor = tasks[s].arg

\* C33 (the file's multiplier at every start of a file): whenever a file begins
\* playing in the music channel, at playMusic and at every change of track by
\* skipNext, skipPrevious or the end of a track, the element's volume is the
\* category volume times that file's multiplier (1 when it has none), capped at 1.
C33_TrackVolume ==
  [][(music'.track # None /\ music'.track # music.track)
     => \A e \in music'.el :
          /\ e \in DOMAIN elvol'
          /\ elvol'[e] = Min(100, (volumes'["music"] * FileVolume(music'.track)) \div 100)]_vars

\* C34 (one music element): at most one music element is playing at any time,
\* under every interleaving of playMusic calls, also when a playMusic is called
\* while an earlier one is suspended in the fade-out of the music that played.
C34_OneMusicElement == Cardinality({e \in playing : e.cat = "music"}) <= 1

\* C35 (no ambient layer is orphaned): in every state each ambient element that is
\* playing is in the mixer's tracked ambient set, so that the next stopAmbient
\* stops it, under every interleaving of the scene operations and triggers.
C35_NoOrphanLayer ==
  \A e \in playing : e.cat = "ambient" => e \in Range(ambient)

\* C36 (lighting at rest): once every launched operation has completed, the last LED
\* request that was sent is a power-off when no scene is active, and is the lighting
\* of scene S when S is active and has a wled descriptor, for every interleaving.
C36_LightingAtRest ==
  (Tasks # {} /\ \A t \in Tasks : Done(t))
  => /\ activeScene = None => lastWled.on = FALSE
     /\ (/\ activeScene \in SceneIds
         /\ Has(getScene(activeScene), "lighting")
         /\ Has(getScene(activeScene).lighting, "wled"))
        => IsSceneLighting(lastWled, activeScene)

\* C37 (audio at rest): once every launched operation has completed and every fade
\* has run out, no trigger with ambient events having run, activeScene = none implies
\* that no ambient layer is playing and none is tracked, for every interleaving.
C37_AudioAtRest ==
  (Tasks # {} /\ Quiescent /\ activeScene = None)
  => /\ \A e \in playing : e.cat # "ambient"
     /\ ambient = <<>>

\* The music panel with a playlist reference: playMusic with a playlist file that
\* exists or one that is missing, in file order or shuffled, and the transport
\* buttons at any moment.
PlaylistCalls ==
  {[source |-> <<"sets/lost.m3u">>, isList |-> FALSE, loop |-> TRUE, shuffle |-> FALSE,
    shuffled |-> <<>>],
   [source |-> <<"sets/night.m3u">>, isList |-> FALSE, loop |-> TRUE, shuffle |-> FALSE,
    shuffled |-> <<>>]}
  \cup {[source |-> <<"sets/night.m3u">>, isList |-> FALSE, loop |-> TRUE,
         shuffle |-> TRUE, shuffled |-> sh]
          : sh \in shuffleArray(parseM3U("sets/night.m3u", TRUE))}

InitPlaylistFile ==
  /\ InitState
  /\ env = [WithMusic(Frame(0, FALSE, 0, {}, {}), 2, PlaylistCalls, MaxControls)
             EXCEPT !.serial = TRUE]

NextPlaylistFile ==
  \/ PlayMusic
  \/ StopMusic
  \/ SkipNext
  \/ SkipPrevious
  \/ MusicEnded
  \/ FetchDone
  \/ PlayDone
  \/ FadeDone
  \/ Tick

SpecPlaylistFile == InitPlaylistFile /\ [][NextPlaylistFile]_vars

\* C38 (current track): whenever a track list is active and no playMusic is under
\* way, 0 <= currentIndex < length of the active ordering, and the path that
\* getCurrentTrack reports is the entry of the active ordering at currentIndex.
C38_CurrentTrackInList ==
  (HasPlaylist(music) /\ getCurrentTrack # None /\ \A t \in Tasks : Done(t))
  => /\ music.index \in 0..(Len(Playlist(music)) - 1)
     /\ getCurrentTrack = Playlist(music)[music.index + 1]

\* C39 (adaptation is a snapshot): the LED requests that the fade-to events of a
\* trigger send carry the brightness and the color of the scene that was active
\* when executeTrigger adapted the sequence, whatever activeScene is when they are
\* sent.
C39_FadeBackValues ==
  \A t \in Tasks :
    LET S == tasks[t].adaptedFor IN
    (IsTrigger(t) /\ S \in SceneIds /\ Has(getScene(S), "lighting")
       /\ Has(getScene(S).lighting, "wled"))
    => LET wled == getScene(S).lighting.wled IN
       \A k \in 1..Len(tasks[t].out) :
         LET r == tasks[t].out[k] IN
         (r.kind = "wled" /\ r.ph = "event" /\ IsFadeTo(StoredSequence(t)[r.ev]))
         => /\ Has(wled, "brightness") => (Has(r.what, "bri") /\ r.what.bri = wled.brightness)
            /\ Has(wled, "color") => (Has(r.what, "col") /\ r.what.col = wled.color)

Completed(t) == IF t \in Tasks THEN Done(t) ELSE FALSE

\* C40 (termination): with every remote call and playback start returning and every
\* timer firing, each startScene, stopScene, executeTrigger and stopTriggers that is
\* launched completes, under every interleaving, and a fade-out never has more
\* left to run than its 50 steps of fadeDuration / 50 each.
C40_OperationsTerminate ==
  /\ \A t \in 1..MaxOps : (t \in Tasks) ~> Completed(t)
  /\ [](\A k \in 1..Len(fades) : fades[k].rem \in 0..Ticks(fadeDuration))
  /\ (fades # <<>>) ~> (fades = <<>>)

C40_Witness ==
  /\ Quiescent
  /\ \E t, u \in Tasks :
       /\ IsTrigger(t) /\ Started(t)
       /\ IsTrigger(u) /\ Started(u)
       /\ t \in tasks[u].over
       /\ tasks[u].heard # {}
====
